---- MODULE Spec2Model ----
(***************************************************************************)
(* Model of lib/Dialect/TritonGPU/Transforms/Pipeliner/TMAStoresPipeline:  *)
(* the rewrite of descriptor stores of an scf.for loop into the            *)
(* wait / local_store / fence / async-TMA sequence, and the execution of   *)
(* the rewritten loop against an asynchronous copy engine.                 *)
(*                                                                         *)
(* The loop body is a tree of operations, kept as its pre-order list:      *)
(* every operation names the region operation (scf.for, scf.if) that       *)
(* holds it, 0 for the body block of the transformed loop itself.          *)
(***************************************************************************)
EXTENDS Integers, Sequences, FiniteSets, TLC

\* ---------------------------------------------------------------- bounds
\* Operations in the loop body handed to the transform.
MaxOps == 3
\* Store-like operations among them.
MaxStores == 3
\* Trip count of the rewritten loop when it is executed.
MaxIter == 2

\* ------------------------------------------------------- program constants
\* CoarseSchedule schedule(3)
NumStages == 3
\* A wait that lets one transfer stay in flight.
PendingsOne == 1 + 0
\* TMAStoreWaitOp(loc, 0)
Pendings == 0

\* ------------------------------------------------------------- input sets
Variants == {"store", "reduce", "scatter"}
Shapes == {<<64, 64>>, <<128, 64>>}
ElemTypes == {"f16", "f32"}
\* The kind attribute of a descriptor reduce.
ReduceKinds == {"add", "max"}
\* The block-type encoding of a descriptor.
DescEncodings == {"swizzled", "fp4padded"}
RegionKinds == {"for", "if"}
OpKinds == RegionKinds \cup {"storelike"}

\* An operation of the input loop body.
BodyOp(id, kind, parent, a) ==
  [id |-> id, kind |-> kind, parent |-> parent,
   variant |-> a.variant, shape |-> a.shape, elt |-> a.elt,
   host |-> a.host, enc |-> a.enc, rkind |-> a.rkind,
   buf |-> 0, idx |-> IF kind = "storelike" THEN id ELSE 0, num |-> 0,
   from |-> 0]

NoAttrs ==
  [variant |-> "none", shape |-> <<>>, elt |-> "none", host |-> TRUE,
   enc |-> "none", rkind |-> "none"]

\* The stores of a loop body that is executed after the rewrite: shapes and
\* descriptor origin vary, or the descriptor encoding does.
RunFamily ==
  [variant : {"store"}, shape : Shapes, elt : {"f16"}, host : BOOLEAN,
   enc : {"swizzled"}, rkind : {"none"}]

RunEncFamily ==
  [variant : {"store"}, shape : {<<64, 64>>}, elt : {"f16"}, host : {TRUE},
   enc : DescEncodings, rkind : {"none"}]

\* The stores of one loop body are drawn from one of three families: source
\* types and descriptor origin vary, or variant and descriptor encoding
\* vary, or the stores are reduces and their kind varies.
TypeFamily ==
  [variant : {"store"}, shape : Shapes, elt : ElemTypes, host : BOOLEAN,
   enc : {"swizzled"}, rkind : {"none"}]

VariantFamily ==
  {a \in [variant : Variants, shape : {<<64, 64>>}, elt : {"f16"},
          host : {TRUE}, enc : DescEncodings, rkind : {"none", "add"}] :
     (a.variant = "reduce") <=> (a.rkind = "add")}

ReduceFamily ==
  [variant : {"reduce"}, shape : {<<64, 64>>}, elt : {"f16"}, host : {TRUE},
   enc : {"swizzled"}, rkind : ReduceKinds]

AttrFamilies == {TypeFamily, VariantFamily, ReduceFamily}

\* A store-like operation that is none of the three operations
\* createTMAAsyncCopy knows.
UnknownVariants == {"other"}

CastFamily ==
  [variant : {"store"} \cup UnknownVariants, shape : {<<64, 64>>},
   elt : {"f16"}, host : BOOLEAN, enc : {"swizzled"}, rkind : {"none"}]

\* An operation created by the transform: `from` is the store it replaces.
NewOp(kind, from, buf, idx, num) ==
  [id |-> 0, kind |-> kind, parent |-> from.parent,
   variant |-> IF kind = "async_tma_reduce" THEN from.variant ELSE "none",
   shape |-> from.shape, elt |-> from.elt,
   host |-> from.host, enc |-> from.enc,
   rkind |-> IF kind = "async_tma_reduce" THEN from.rkind ELSE "none",
   buf |-> buf, idx |-> idx, num |-> num, from |-> from.id]

RECURSIVE AncestorsOrSelf(_, _)
AncestorsOrSelf(par, j) ==
  IF j = 0 THEN {0} ELSE {j} \cup AncestorsOrSelf(par, par[j])

\* kinds, par describe the pre-order list of a tree of operations.
ValidTree(n, kinds, par) ==
  \A j \in 1..n :
    /\ par[j] < j
    /\ par[j] # 0 => kinds[par[j]] \in RegionKinds
    /\ j > 1 => par[j] \in AncestorsOrSelf(par, j - 1)

StoreIdx(n, kinds) == {j \in 1..n : kinds[j] = "storelike"}

VARIABLES
  original,         \* the loop body the transform was handed
  body,             \* operations of the loop body, pre-order
  pre,              \* operations inserted before the loop
  post,             \* operations inserted after the loop
  tmaStores,        \* SmallVector<TMAStore>
  allocs,           \* DenseMap<(shape, type), Value>
  storeToAlloc,     \* DenseMap<Operation *, Value>
  hasDeviceSideTMA,
  lowered,          \* stage depths lowerTMADescriptors was run with
  erased,           \* operations erased so far
  staleReads,       \* storeToAlloc keys read when their operation was erased
  i,                \* position of the running for-loop over tmaStores
  pc,
  result,
  \* execution of the rewritten program
  rphase,           \* "off", "pre", "head", "body", "post", "halt"
  ip,               \* position of the next operation in its list
  iter,             \* iterations of the loop entered so far
  live,             \* buffers allocated and not deallocated
  smem,             \* what each buffer holds: <<store, iteration>>
  vis,              \* what the copy engine sees in each buffer
  outstanding,      \* transfers issued and not completed
  delivered         \* the transfer completed last, with what it wrote

tvars == <<original, body, pre, post, tmaStores, allocs, storeToAlloc,
           hasDeviceSideTMA, lowered, erased, staleReads, i, pc, result>>

rvars == <<rphase, ip, iter, live, smem, vis, outstanding, delivered>>

vars == <<tvars, rvars>>

InitWith(families) ==
  /\ \E n \in 0..MaxOps :
       \E kinds \in {k \in [1..n -> OpKinds] :
                       Cardinality(StoreIdx(n, k)) <= MaxStores} :
         \E par \in {p \in [1..n -> 0..n] : ValidTree(n, kinds, p)} :
           \E a \in UNION {[StoreIdx(n, kinds) -> F] : F \in families} :
             body = [j \in 1..n |->
                       BodyOp(j, kinds[j], par[j],
                              IF kinds[j] = "storelike" THEN a[j]
                              ELSE NoAttrs)]
  /\ original = body
  /\ pre = <<>>
  /\ post = <<>>
  /\ tmaStores = <<>>
  /\ allocs = <<>>
  /\ storeToAlloc = <<>>
  /\ hasDeviceSideTMA = FALSE
  /\ lowered = <<>>
  /\ erased = {}
  /\ staleReads = {}
  /\ i = 0
  /\ pc = "collect"
  /\ result = "none"
  /\ rphase = "off"
  /\ ip = 0
  /\ iter = 0
  /\ live = {}
  /\ smem = <<>>
  /\ vis = <<>>
  /\ outstanding = {}
  /\ delivered = [from |-> 0, iter |-> 0, data |-> <<0, 0>>, idx |-> 0]

Init == InitWith(AttrFamilies)

InitRun == InitWith({RunFamily, RunEncFamily})

\* ------------------------------------------------------------ collector
TMAStore(op) ==
  [op |-> op.id,
   desc |-> [host |-> op.host, enc |-> op.enc],
   src |-> [shape |-> op.shape, elt |-> op.elt]]

\* The operations held directly by region operation `parent`, in order.
Children(ops, parent) ==
  SelectSeq(ops, LAMBDA o : o.parent = parent)

RECURSIVE walkIntoLoops(_, _)
\* The walk without the skip at scf.for.
walkIntoLoops(ops, block) ==
  IF block = <<>> THEN <<>>
  ELSE LET op == Head(block)
           here == IF op.kind = "storelike" THEN <<TMAStore(op)>>
                   ELSE <<>>
           below == IF op.kind = "storelike" THEN <<>>
                    ELSE walkIntoLoops(ops, Children(ops, op.id))
       IN here \o below \o walkIntoLoops(ops, Tail(block))

RECURSIVE walk(_, _)
\* Block/Operation::walk<PreOrder> with the callback of getTMAStores: a
\* store-like operation is recorded, an scf.for is skipped with everything
\* under it, any other operation is entered.
walk(ops, block) ==
  IF block = <<>> THEN <<>>
  ELSE LET op == Head(block)
           here == IF op.kind = "storelike" THEN <<TMAStore(op)>>
                   ELSE <<>>
           below == IF op.kind = "storelike" THEN <<>>
                    ELSE IF op.kind = "for" THEN <<>>
                    ELSE walk(ops, Children(ops, op.id))
       IN here \o below \o walk(ops, Tail(block))

getTMAStores(ops) == walk(ops, Children(ops, 0))

\* ------------------------------------------------------------ allocator
\* triton::nvidia_gpu::getEncodingFromDescriptor
getEncodingFromDescriptor(store) ==
  <<"shared", store.desc.enc, store.src.shape>>

createAlloc(before, store) ==
  [kind |-> "local_alloc", buf |-> Len(before) + 1,
   shape |-> store.src.shape, elt |-> store.src.elt,
   encoding |-> getEncodingFromDescriptor(store),
   mutableMemory |-> TRUE, loc |-> store.op]

\* A key that leaves the element type out.
KeyShapeOnly(store) == <<store.src.shape, "any">>

Key(store) == <<store.src.shape, store.src.elt>>

\* DenseMap::operator[]: a missing key reads as the null Value.
Lookup(map, k) == IF k \in DOMAIN map THEN map[k] ELSE 0

Put(map, k, v) == [x \in DOMAIN map \cup {k} |-> IF x = k THEN v ELSE map[x]]

\* triton::isHostSideDescriptor
isHostSideDescriptor(desc) == desc.host

\* ------------------------------------------------------------- rewriter
\* ttng::translateTMAIndices: the operations it creates at the builder's
\* insertion point, and the indices it returns.
translateTMAIndicesOps(op) ==
  IF op.enc = "fp4padded"
  THEN <<NewOp("arith.constant", op, 0, 2, 0),
         NewOp("arith.muli", op, 0, op.idx * 2, 0)>>
  ELSE <<>>

translateTMAIndices(op) ==
  IF op.enc = "fp4padded" THEN op.idx * 2 ELSE op.idx

\* The sequence with the fence placed behind the issue.
AsyncSequenceFenceLast(op, alloc) ==
  <<NewOp("tma_store_wait", op, 0, 0, 0),
    NewOp("local_store", op, alloc, 0, 0)>>
  \o (IF op.variant = "store"
      THEN translateTMAIndicesOps(op)
           \o <<NewOp("async_tma_copy_local_to_global", op, alloc, op.idx, 0)>>
      ELSE IF op.variant = "reduce"
      THEN translateTMAIndicesOps(op)
           \o <<NewOp("async_tma_reduce", op, alloc, op.idx, 0)>>
      ELSE <<NewOp("async_tma_scatter", op, alloc, op.idx, 0)>>)
  \o <<NewOp("fence_async_shared", op, 0, 0, 0)>>

\* The sequence with the wait moved behind the local_store.
AsyncSequenceStoreFirst(op, alloc) ==
  <<NewOp("local_store", op, alloc, 0, 0),
    NewOp("tma_store_wait", op, 0, 0, 0),
    NewOp("fence_async_shared", op, 0, 0, 0)>>
  \o (IF op.variant = "store"
      THEN translateTMAIndicesOps(op)
           \o <<NewOp("async_tma_copy_local_to_global", op, alloc, op.idx, 0)>>
      ELSE IF op.variant = "reduce"
      THEN translateTMAIndicesOps(op)
           \o <<NewOp("async_tma_reduce", op, alloc, op.idx, 0)>>
      ELSE <<NewOp("async_tma_scatter", op, alloc, op.idx, 0)>>)

\* The operations createTMAAsyncCopy creates before store.op, in creation
\* order.
AsyncSequence(op, alloc) ==
  <<NewOp("tma_store_wait", op, 0, 0, Pendings),
    NewOp("local_store", op, alloc, 0, 0),
    NewOp("fence_async_shared", op, 0, 0, 0)>>
  \o (IF op.variant = "store"
      THEN translateTMAIndicesOps(op)
           \o <<NewOp("async_tma_copy_local_to_global", op, alloc, op.idx, 0)>>
      ELSE IF op.variant = "reduce"
      THEN translateTMAIndicesOps(op)
           \o <<NewOp("async_tma_reduce", op, alloc, op.idx, 0)>>
      ELSE <<NewOp("async_tma_scatter", op, alloc, op.idx, 0)>>)

PosOf(ops, id) == CHOOSE j \in 1..Len(ops) : ops[j].id = id

\* createTMAAsyncCopy without the erase of store.op.
createTMAAsyncCopyKeepsStore(ops, store, alloc) ==
  LET p == PosOf(ops, store.op)
  IN SubSeq(ops, 1, p - 1) \o AsyncSequence(ops[p], alloc)
       \o SubSeq(ops, p, Len(ops))

\* The loop body after createTMAAsyncCopy: the sequence stands where the
\* store stood, and the store is erased.
createTMAAsyncCopy(ops, store, alloc) ==
  LET p == PosOf(ops, store.op)
  IN SubSeq(ops, 1, p - 1) \o AsyncSequence(ops[p], alloc)
       \o SubSeq(ops, p + 1, Len(ops))

\* ------------------------------------------------------------- epilogue
PostOp(kind, buf, num) == [kind |-> kind, buf |-> buf, num |-> num]

\* The orders in which a DenseMap of the given keys can be iterated.
Orders(keys) ==
  {o \in [1..Cardinality(keys) -> keys] :
     \A a, b \in 1..Cardinality(keys) : a # b => o[a] # o[b]}

\* ------------------------------------------------------ pipelineTMAStores
Collect ==
  /\ pc = "collect"
  /\ getTMAStores(body) # <<>>
  /\ tmaStores' = getTMAStores(body)
  /\ i' = 1
  /\ pc' = "alloc"
  /\ UNCHANGED staleReads
  /\ UNCHANGED <<original, body, pre, post, allocs, storeToAlloc, hasDeviceSideTMA,
                 lowered, erased, result>>
  /\ UNCHANGED rvars

\* The early return taken only after the final wait has been placed.
ReturnFalseAfterWait ==
  /\ pc = "collect"
  /\ getTMAStores(body) = <<>>
  /\ tmaStores' = <<>>
  /\ post' = <<PostOp("tma_store_wait", 0, 0)>>
  /\ result' = "false"
  /\ pc' = "done"
  /\ UNCHANGED staleReads
  /\ UNCHANGED <<original, body, pre, allocs, storeToAlloc,
                 hasDeviceSideTMA, lowered, erased, i>>
  /\ UNCHANGED rvars

ReturnFalse ==
  /\ pc = "collect"
  /\ getTMAStores(body) = <<>>
  /\ tmaStores' = <<>>
  /\ result' = "false"
  /\ pc' = "done"
  /\ UNCHANGED staleReads
  /\ UNCHANGED <<original, body, pre, post, allocs, storeToAlloc, hasDeviceSideTMA,
                 lowered, erased, i>>
  /\ UNCHANGED rvars

\* The allocation loop with every new allocation placed before the ones
\* made so far.
AssignAllocPrepend ==
  /\ pc = "alloc"
  /\ LET store == tmaStores[i]
         key == Key(store)
         found == Lookup(allocs, key)
         made == createAlloc(pre, store)
         alloc == IF found = 0 THEN made.buf ELSE found
     IN /\ pre' = IF found = 0 THEN <<made>> \o pre ELSE pre
        /\ allocs' = Put(allocs, key, alloc)
        /\ storeToAlloc' = Put(storeToAlloc, store.op, alloc)
  /\ i' = IF i < Len(tmaStores) THEN i + 1 ELSE 0
  /\ pc' = IF i < Len(tmaStores) THEN "alloc" ELSE "anyof"
  /\ UNCHANGED staleReads
  /\ UNCHANGED <<original, body, post, tmaStores, hasDeviceSideTMA, lowered,
                 erased, result>>
  /\ UNCHANGED rvars

\* The allocation loop left after its first iteration.
AssignAllocFirstOnly ==
  /\ pc = "alloc"
  /\ LET store == tmaStores[i]
         key == Key(store)
         found == Lookup(allocs, key)
         made == createAlloc(pre, store)
         alloc == IF found = 0 THEN made.buf ELSE found
     IN /\ pre' = IF found = 0 THEN Append(pre, made) ELSE pre
        /\ allocs' = Put(allocs, key, alloc)
        /\ storeToAlloc' = Put(storeToAlloc, store.op, alloc)
  /\ i' = 0
  /\ pc' = "anyof"
  /\ UNCHANGED staleReads
  /\ UNCHANGED <<original, body, post, tmaStores, hasDeviceSideTMA, lowered,
                 erased, result>>
  /\ UNCHANGED rvars

\* One iteration of the loop that fills allocs and storeToAlloc.
AssignAlloc ==
  /\ pc = "alloc"
  /\ LET store == tmaStores[i]
         key == Key(store)
         found == Lookup(allocs, key)
         made == createAlloc(pre, store)
         alloc == IF found = 0 THEN made.buf ELSE found
     IN /\ pre' = IF found = 0 THEN Append(pre, made) ELSE pre
        /\ allocs' = Put(allocs, key, alloc)
        /\ storeToAlloc' = Put(storeToAlloc, store.op, alloc)
  /\ i' = IF i < Len(tmaStores) THEN i + 1 ELSE 0
  /\ pc' = IF i < Len(tmaStores) THEN "alloc" ELSE "anyof"
  /\ UNCHANGED staleReads
  /\ UNCHANGED <<original, body, post, tmaStores, hasDeviceSideTMA, lowered, erased,
                 result>>
  /\ UNCHANGED rvars

\* all_of in place of any_of.
AllDeviceSide ==
  /\ pc = "anyof"
  /\ hasDeviceSideTMA' =
       (\A j \in 1..Len(tmaStores) : ~isHostSideDescriptor(tmaStores[j].desc))
  /\ i' = 1
  /\ pc' = "rewrite"
  /\ UNCHANGED staleReads
  /\ UNCHANGED <<original, body, pre, post, tmaStores, allocs, storeToAlloc,
                 lowered, erased, result>>
  /\ UNCHANGED rvars

AnyDeviceSide ==
  /\ pc = "anyof"
  /\ hasDeviceSideTMA' =
       (\E j \in 1..Len(tmaStores) : ~isHostSideDescriptor(tmaStores[j].desc))
  /\ i' = 1
  /\ pc' = "rewrite"
  /\ UNCHANGED staleReads
  /\ UNCHANGED <<original, body, pre, post, tmaStores, allocs, storeToAlloc, lowered,
                 erased, result>>
  /\ UNCHANGED rvars

\* The rewrite loop handing every store the buffer of the first store.
RewriteFirstAlloc ==
  /\ pc = "rewrite"
  /\ LET store == tmaStores[i]
     IN /\ body' = createTMAAsyncCopy(body, store,
                                      Lookup(storeToAlloc, tmaStores[1].op))
        /\ erased' = erased \cup {store.op}
        /\ staleReads' = staleReads \cup ({store.op} \cap erased)
  /\ i' = IF i < Len(tmaStores) THEN i + 1 ELSE 0
  /\ pc' = IF i < Len(tmaStores) THEN "rewrite" ELSE "epilogue"
  /\ UNCHANGED <<original, pre, post, tmaStores, allocs, storeToAlloc,
                 hasDeviceSideTMA, lowered, result>>
  /\ UNCHANGED rvars

\* The rewrite loop leaving before the last store.
RewriteButLast ==
  /\ pc = "rewrite"
  /\ LET store == tmaStores[i]
     IN /\ body' = createTMAAsyncCopy(body, store,
                                      Lookup(storeToAlloc, store.op))
        /\ erased' = erased \cup {store.op}
        /\ staleReads' = staleReads \cup ({store.op} \cap erased)
  /\ i' = IF i < Len(tmaStores) - 1 THEN i + 1 ELSE 0
  /\ pc' = IF i < Len(tmaStores) - 1 THEN "rewrite" ELSE "epilogue"
  /\ UNCHANGED <<original, pre, post, tmaStores, allocs, storeToAlloc,
                 hasDeviceSideTMA, lowered, result>>
  /\ UNCHANGED rvars

\* One iteration of the loop that rewrites the stores.
Rewrite ==
  /\ pc = "rewrite"
  /\ LET store == tmaStores[i]
     IN /\ body' = createTMAAsyncCopy(body, store,
                                      Lookup(storeToAlloc, store.op))
        /\ erased' = erased \cup {store.op}
        /\ staleReads' = staleReads \cup ({store.op} \cap erased)
  /\ i' = IF i < Len(tmaStores) THEN i + 1 ELSE 0
  /\ pc' = IF i < Len(tmaStores) THEN "rewrite" ELSE "epilogue"
  /\ UNCHANGED <<original, pre, post, tmaStores, allocs, storeToAlloc,
                 hasDeviceSideTMA, lowered, result>>
  /\ UNCHANGED rvars

\* The epilogue with the wait placed behind the deallocations.
EpilogueWaitLast ==
  /\ pc = "epilogue"
  /\ \E o \in Orders(DOMAIN storeToAlloc) :
       post' = [j \in 1..Len(o) |->
                  PostOp("local_dealloc", storeToAlloc[o[j]], 0)]
               \o <<PostOp("tma_store_wait", 0, Pendings)>>
  /\ staleReads' = staleReads \cup (DOMAIN storeToAlloc \cap erased)
  /\ pc' = "trigger"
  /\ UNCHANGED <<original, body, pre, tmaStores, allocs, storeToAlloc,
                 hasDeviceSideTMA, lowered, erased, i, result>>
  /\ UNCHANGED rvars

\* The wait and the deallocations placed after the loop.
Epilogue ==
  /\ pc = "epilogue"
  /\ \E o \in Orders(DOMAIN storeToAlloc) :
       post' = <<PostOp("tma_store_wait", 0, Pendings)>>
               \o [j \in 1..Len(o) |->
                     PostOp("local_dealloc", storeToAlloc[o[j]], 0)]
  /\ staleReads' = staleReads \cup (DOMAIN storeToAlloc \cap erased)
  /\ pc' = "trigger"
  /\ UNCHANGED <<original, body, pre, tmaStores, allocs, storeToAlloc,
                 hasDeviceSideTMA, lowered, erased, i, result>>
  /\ UNCHANGED rvars

lowerTMADescriptorCreation ==
  /\ pc = "trigger"
  /\ hasDeviceSideTMA
  /\ lowered' = Append(lowered, NumStages)
  /\ pc' = "return"
  /\ UNCHANGED staleReads
  /\ UNCHANGED <<original, body, pre, post, tmaStores, allocs, storeToAlloc,
                 hasDeviceSideTMA, erased, i, result>>
  /\ UNCHANGED rvars

ReturnTrue ==
  /\ \/ pc = "return"
     \/ pc = "trigger" /\ ~hasDeviceSideTMA
  /\ result' = "true"
  /\ pc' = "done"
  /\ UNCHANGED staleReads
  /\ UNCHANGED <<original, body, pre, post, tmaStores, allocs, storeToAlloc,
                 hasDeviceSideTMA, lowered, erased, i>>
  /\ UNCHANGED rvars

Next ==
  \/ Collect
  \/ ReturnFalse
  \/ AssignAlloc
  \/ AnyDeviceSide
  \/ Rewrite
  \/ Epilogue
  \/ lowerTMADescriptorCreation
  \/ ReturnTrue

Spec == Init /\ [][Next]_vars

InitLive == InitWith({RunFamily, VariantFamily})

InitCast == InitWith({CastFamily})

\* cast<tt::DescriptorScatterOp> on an operation that is no scatter: where
\* assertions are compiled in, the program stops there, behind the wait,
\* the local_store and the fence it has created for the store; where they
\* are not, the cast checks nothing and Rewrite goes on with the operation
\* taken for a scatter.
CastAbort ==
  /\ pc = "rewrite"
  /\ LET store == tmaStores[i]
         p == PosOf(body, store.op)
     IN /\ body[p].variant \notin Variants
        /\ body' = SubSeq(body, 1, p - 1)
                     \o SubSeq(AsyncSequence(body[p],
                                  Lookup(storeToAlloc, store.op)), 1, 3)
                     \o SubSeq(body, p, Len(body))
  /\ pc' = "aborted"
  /\ UNCHANGED staleReads
  /\ UNCHANGED <<original, pre, post, tmaStores, allocs, storeToAlloc,
                 hasDeviceSideTMA, lowered, erased, i, result>>
  /\ UNCHANGED rvars

NextCast == Next \/ CastAbort

SpecCast == InitCast /\ [][NextCast]_vars

\* pipelineTMAStores is straight-line code around loops over tmaStores and
\* storeToAlloc: the step it is at is taken.
SpecLive == InitLive /\ [][Next]_vars /\ WF_vars(Next)

\* ------------------------------------------- the rewritten program, run
RECURSIVE Ancestors(_, _)
\* The region operations around the operation whose parent is `parent`.
Ancestors(ops, parent) ==
  IF parent = 0 THEN {}
  ELSE {parent} \cup Ancestors(ops, ops[PosOf(ops, parent)].parent)

\* The position after the last operation held, at any depth, by ops[p].
AfterSubtree(ops, p) ==
  LET out == {q \in (p + 1)..Len(ops) :
                ops[p].id \notin Ancestors(ops, ops[q].parent)}
  IN IF out = {} THEN Len(ops) + 1
     ELSE CHOOSE q \in out : \A r \in out : q <= r

GoPre(k) ==
  IF k <= Len(pre) THEN rphase' = "pre" /\ ip' = k
  ELSE rphase' = "head" /\ ip' = 0

GoBody(k) ==
  IF k <= Len(body) THEN rphase' = "body" /\ ip' = k
  ELSE rphase' = "head" /\ ip' = 0

GoPost(k) ==
  IF k <= Len(post) THEN rphase' = "post" /\ ip' = k
  ELSE rphase' = "halt" /\ ip' = 0

\* The operation about to execute, or a record of kind "none".
Current ==
  IF rphase = "pre" THEN pre[ip]
  ELSE IF rphase = "body" THEN body[ip]
  ELSE IF rphase = "post" THEN post[ip]
  ELSE [kind |-> "none"]

Step == IF rphase = "body" THEN GoBody(ip + 1) ELSE GoPost(ip + 1)

RunStart ==
  /\ pc = "done"
  /\ rphase = "off"
  /\ GoPre(1)
  /\ UNCHANGED <<tvars, iter, live, smem, vis, outstanding, delivered>>

RunLocalAlloc ==
  /\ Current.kind = "local_alloc"
  /\ live' = live \cup {Current.buf}
  /\ smem' = Put(smem, Current.buf, <<0, 0>>)
  /\ vis' = Put(vis, Current.buf, <<0, 0>>)
  /\ GoPre(ip + 1)
  /\ UNCHANGED <<tvars, iter, outstanding, delivered>>

RunEnter ==
  /\ rphase = "head"
  /\ iter < MaxIter
  /\ iter' = iter + 1
  /\ GoBody(1)
  /\ UNCHANGED <<tvars, live, smem, vis, outstanding, delivered>>

RunExit ==
  /\ rphase = "head"
  /\ GoPost(1)
  /\ UNCHANGED <<tvars, iter, live, smem, vis, outstanding, delivered>>

\* TMAStoreWaitOp blocks until at most `pendings` transfers are in flight.
RunWait ==
  /\ Current.kind = "tma_store_wait"
  /\ Cardinality(outstanding) <= Current.num
  /\ Step
  /\ UNCHANGED <<tvars, iter, live, smem, vis, outstanding, delivered>>

RunLocalStore ==
  /\ Current.kind = "local_store"
  /\ smem' = Put(smem, Current.buf, <<Current.from, iter>>)
  /\ Step
  /\ UNCHANGED <<tvars, iter, live, vis, outstanding, delivered>>

\* The fence makes the local_stores before it visible to the copy engine.
RunFence ==
  /\ Current.kind = "fence_async_shared"
  /\ vis' = smem
  /\ Step
  /\ UNCHANGED <<tvars, iter, live, smem, outstanding, delivered>>

IssueKinds ==
  {"async_tma_copy_local_to_global", "async_tma_reduce", "async_tma_scatter"}

RunIssue ==
  /\ Current.kind \in IssueKinds
  /\ outstanding' = outstanding \cup
       {[buf |-> Current.buf, from |-> Current.from, iter |-> iter,
         idx |-> Current.idx]}
  /\ Step
  /\ UNCHANGED <<tvars, iter, live, smem, vis, delivered>>

\* An scf.if or a nested scf.for: its operations run or are passed over.
RunRegion ==
  /\ Current.kind \in RegionKinds
  /\ \/ GoBody(ip + 1)
     \/ GoBody(AfterSubtree(body, ip))
  /\ UNCHANGED <<tvars, iter, live, smem, vis, outstanding, delivered>>

\* A store the transform left in place, or index arithmetic.
RunOther ==
  /\ Current.kind \in {"storelike", "arith.constant", "arith.muli"}
  /\ Step
  /\ UNCHANGED <<tvars, iter, live, smem, vis, outstanding, delivered>>

RunLocalDealloc ==
  /\ Current.kind = "local_dealloc"
  /\ live' = live \ {Current.buf}
  /\ Step
  /\ UNCHANGED <<tvars, iter, smem, vis, outstanding, delivered>>

\* The copy engine finishes a transfer, at any time after its issue: it
\* has written, at the coordinates of the issue, what it saw in the buffer,
\* which for a local_store no fence has followed is the old or the new
\* content.
Complete ==
  /\ \E t \in outstanding :
       /\ outstanding' = outstanding \ {t}
       /\ \E d \in {vis[t.buf], smem[t.buf]} :
            delivered' = [from |-> t.from, iter |-> t.iter, data |-> d,
                          idx |-> t.idx]
  /\ UNCHANGED <<tvars, rphase, ip, iter, live, smem, vis>>

NextRun ==
  \/ Next
  \/ RunStart
  \/ RunLocalAlloc
  \/ RunEnter
  \/ RunExit
  \/ RunWait
  \/ RunLocalStore
  \/ RunFence
  \/ RunIssue
  \/ RunRegion
  \/ RunOther
  \/ RunLocalDealloc
  \/ Complete

SpecRun == InitRun /\ [][NextRun]_vars

\* ============================================================ properties
\* What the properties say about the loop the transform was handed is read
\* from `original`, not from what the transform computed.

Positions(ops, P(_)) == {p \in 1..Len(ops) : P(ops[p])}

InNestedLoop(o) ==
  \E a \in Ancestors(original, o.parent) : original[a].kind = "for"

IsEligible(o) == o.kind = "storelike" /\ ~InNestedLoop(o)

\* Positions in `original` of the stores outside every nested loop.
Eligible == Positions(original, IsEligible)

SrcType(o) == <<o.shape, o.elt>>

IsDealloc(o) == o.kind = "local_dealloc"
IsAlloc(o) == o.kind = "local_alloc"
IsWait(o) == o.kind = "tma_store_wait"
IsIssue(o) == o.kind \in IssueKinds

Finished == pc = "done" /\ result = "true"

\* ------------------------------------------------------------------- C1
\* C1 as stated: once the transform has rewritten a loop, the deallocations
\* after the loop are as many as the distinct (shape, element type) keys of
\* its stores, and no buffer is the operand of two of them.
C1_DeallocOncePerBuffer ==
  Finished =>
    /\ Cardinality(Positions(post, IsDealloc))
         = Cardinality({SrcType(original[s]) : s \in Eligible})
    /\ \A p, q \in Positions(post, IsDealloc) :
         p # q => post[p].buf # post[q].buf

\* ------------------------------------------------------------------- C5
AssignedStores == DOMAIN storeToAlloc

\* C5: two stores have the same buffer exactly when their source data have
\* the same shape and the same element type; at every point the allocations
\* before the loop are one per key among the stores assigned so far, each
\* its own buffer, and once every store is assigned they are as many as the
\* distinct keys of the stores.
C5_SharedIffSameType ==
  /\ \A a, b \in AssignedStores :
       (storeToAlloc[a] = storeToAlloc[b])
         <=> (original[a].shape = original[b].shape
              /\ original[a].elt = original[b].elt)
  /\ \A p, q \in 1..Len(pre) :
       p # q => /\ pre[p].buf # pre[q].buf
                /\ <<pre[p].shape, pre[p].elt>> # <<pre[q].shape, pre[q].elt>>
  /\ Len(pre) = Cardinality({SrcType(original[s]) : s \in AssignedStores})
  /\ \A s \in AssignedStores : \E p \in 1..Len(pre) :
       /\ pre[p].buf = storeToAlloc[s]
       /\ IsAlloc(pre[p])
  /\ pc \in {"anyof", "rewrite", "epilogue", "trigger", "return"} \/ Finished
       => AssignedStores = Eligible

\* Three stores, two of one type sharing a buffer and one of another type.
C5_Witness ==
  /\ Finished
  /\ \E a, b, c \in AssignedStores :
       /\ a # b
       /\ storeToAlloc[a] = storeToAlloc[b]
       /\ storeToAlloc[c] # storeToAlloc[a]
       /\ original[c].shape = original[a].shape
       /\ original[c].elt # original[a].elt
  /\ Len(pre) = 2

\* ------------------------------------------------------------------- C6
IssueKindOf(variant) ==
  IF variant = "store" THEN "async_tma_copy_local_to_global"
  ELSE IF variant = "reduce" THEN "async_tma_reduce"
  ELSE "async_tma_scatter"

\* C6: when the transform has rewritten a loop, none of the stores it
\* collected is left in the body, and the body holds exactly one issue
\* operation per collected store, of the kind of that store's variant.
C6_ExhaustiveReplacement ==
  Finished =>
    /\ Eligible # {}
    /\ \A s \in Eligible : Positions(body, LAMBDA o : o.id = s) = {}
    /\ Cardinality(Positions(body, IsIssue)) = Cardinality(Eligible)
    /\ \A s \in Eligible :
         /\ Cardinality(Positions(body,
                LAMBDA o : IsIssue(o) /\ o.from = s)) = 1
         /\ \A p \in Positions(body, LAMBDA o : IsIssue(o) /\ o.from = s) :
              body[p].kind = IssueKindOf(original[s].variant)

\* A loop whose three stores are one of each variant, rewritten.
C6_Witness ==
  /\ Finished
  /\ {original[s].variant : s \in Eligible} = Variants
  /\ {body[p].kind : p \in Positions(body, IsIssue)} = IssueKinds

\* ------------------------------------------------------------------- C7
\* C7: for a loop without a store outside nested loops the transform emits
\* nothing before, inside or after the loop, does not run the descriptor
\* lowering, and returns false.
C7_NoOp ==
  Eligible = {} =>
    /\ body = original
    /\ pre = <<>>
    /\ post = <<>>
    /\ lowered = <<>>
    /\ result # "true"
    /\ pc = "done" => result = "false"

\* A loop whose only store sits in a nested loop and has a device-side
\* descriptor, after the transform returned.
C7_Witness ==
  /\ pc = "done"
  /\ result = "false"
  /\ \E p \in 1..Len(original) :
       original[p].kind = "storelike" /\ ~original[p].host

\* ------------------------------------------------------------------- C8
Ops(stores) == [j \in 1..Len(stores) |-> stores[j].op]

Ids(ops) == [j \in 1..Len(ops) |-> ops[j].id]

\* C8: the collected stores are the stores outside every nested loop, in
\* pre-order; a store inside a nested loop, at any depth and under any
\* region inside it, stays in the body as it was.
C8_NestedLoopExclusion ==
  /\ pc # "collect" =>
       Ops(tmaStores) = Ids(SelectSeq(original, IsEligible))
  /\ \A p \in 1..Len(original) :
       original[p].kind = "storelike" /\ InNestedLoop(original[p])
         => /\ Positions(body, LAMBDA o : o = original[p]) # {}
            /\ original[p].id \notin erased
            /\ original[p].id \notin AssignedStores

\* A rewritten loop that holds a collected store and, untouched, a store
\* inside a nested loop.
C8_Witness ==
  /\ Finished
  /\ \E p \in 1..Len(original) :
       /\ original[p].kind = "storelike"
       /\ InNestedLoop(original[p])
       /\ Positions(body, LAMBDA o : o = original[p]) # {}
  /\ Len(tmaStores) >= 1

\* ------------------------------------------------------------------- C9
\* C9: the descriptor lowering has run, once and with three stages, exactly
\* when a collected store has a device-side descriptor; it never runs more
\* than once nor with another depth.
C9_TriggerCondition ==
  /\ pc = "done" =>
       (lowered # <<>> <=> \E s \in Eligible : ~original[s].host)
  /\ lowered \in {<<>>, <<3>>}

\* The lowering has run for a loop that mixes a host-side and a device-side
\* descriptor among its collected stores.
C9_Witness ==
  /\ pc = "done"
  /\ lowered = <<3>>
  /\ \E s, t \in Eligible : original[s].host /\ ~original[t].host

\* ------------------------------------------------------------------ C10
EpilogueDone == pc \in {"trigger", "return"} \/ Finished

\* C10: once the epilogue of a rewritten loop is emitted, the operations
\* after the loop are one wait for zero outstanding transfers followed by
\* deallocations only; no deallocation is ever before or inside the loop.
C10_DrainBeforeDealloc ==
  /\ EpilogueDone =>
       /\ Len(post) >= 2
       /\ IsWait(post[1]) /\ post[1].num = 0
       /\ Positions(post, IsWait) = {1}
       /\ \A p \in 2..Len(post) : IsDealloc(post[p])
  /\ Positions(body, IsDealloc) = {}
  /\ Positions(pre, IsDealloc) = {}
  /\ ~EpilogueDone /\ result # "false" => post = <<>>

\* The epilogue of a loop with stores of two types.
C10_Witness ==
  /\ Finished
  /\ \E p, q \in Positions(post, IsDealloc) : post[p].buf # post[q].buf

\* ------------------------------------------------------------------- C4
\* Positions in the body of the operations of the given kinds that stand
\* for store s.
At(s, kinds) == Positions(body, LAMBDA o : o.from = s /\ o.kind \in kinds)

One(S) == Cardinality(S) = 1

The(S) == CHOOSE x \in S : TRUE

HasSequence(s) ==
  /\ One(At(s, {"tma_store_wait"}))
  /\ One(At(s, {"local_store"}))
  /\ One(At(s, {"fence_async_shared"}))
  /\ One(At(s, IssueKinds))
  /\ body[The(At(s, {"tma_store_wait"}))].num = 0

\* C4 as stated: for every rewritten store the body holds wait(0), stage,
\* fence and issue in this order, with nothing between the stage and the
\* fence and nothing between the fence and the issue.
C4_ProtocolOrder ==
  \A s \in erased :
    /\ HasSequence(s)
    /\ The(At(s, {"tma_store_wait"})) < The(At(s, {"local_store"}))
    /\ The(At(s, {"fence_async_shared"})) = The(At(s, {"local_store"})) + 1
    /\ The(At(s, IssueKinds)) = The(At(s, {"fence_async_shared"})) + 1

\* C4 as amended: wait(0), stage, fence and issue stand in this order, the
\* fence follows the stage directly, and between the fence and the issue
\* stand only the operations the index translation of that same store
\* created, which a scatter store does not have.
C4_ProtocolOrderUpToTranslation ==
  \A s \in erased :
    /\ HasSequence(s)
    /\ The(At(s, {"tma_store_wait"})) < The(At(s, {"local_store"}))
    /\ The(At(s, {"fence_async_shared"})) = The(At(s, {"local_store"})) + 1
    /\ The(At(s, IssueKinds)) > The(At(s, {"fence_async_shared"}))
    /\ \A p \in (The(At(s, {"fence_async_shared"})) + 1)
                ..(The(At(s, IssueKinds)) - 1) :
         /\ body[p].kind \in {"arith.constant", "arith.muli"}
         /\ body[p].from = s
         /\ original[s].variant \in {"store", "reduce"}

\* A rewritten loop with a scatter store, a reduction store whose index
\* translation created operations and a plain store whose did not.
C4_Witness ==
  /\ Finished
  /\ \E s, t, u \in erased :
       /\ original[s].variant = "scatter"
       /\ original[t].variant = "reduce"
       /\ The(At(t, IssueKinds)) = The(At(t, {"fence_async_shared"})) + 3
       /\ original[u].variant = "store"
       /\ The(At(u, IssueKinds)) = The(At(u, {"fence_async_shared"})) + 1

\* ------------------------------------------------------------------- C2
\* C2: whenever a local_store is the operation about to execute, no
\* transfer reading the buffer it writes is in flight.
C2_NoStageOverOutstanding ==
  Current.kind = "local_store" =>
    \A t \in outstanding : t.buf # Current.buf

\* In the second iteration a store is about to stage into a buffer that
\* holds what another store staged, and transferred, before it.
C2_Witness ==
  /\ Current.kind = "local_store"
  /\ iter = 2
  /\ smem[Current.buf][1] \notin {0, Current.from}

\* ------------------------------------------------------------------- C3
\* C3: whenever a local_dealloc is the operation about to execute, no
\* transfer is in flight.
C3_NoDeallocOverOutstanding ==
  Current.kind = "local_dealloc" => outstanding = {}

\* A deallocation of a buffer is about to execute after two iterations
\* staged into it and issued transfers from it.
C3_Witness ==
  /\ Current.kind = "local_dealloc"
  /\ iter = 2
  /\ smem[Current.buf][2] = 2

\* ------------------------------------------------------------------ C11
\* C11 as stated: the index operands of the asynchronous copy or reduce
\* that stands for a plain or a reduction store are the indices the index
\* translation returned for that store.
C11_TranslatedIndices ==
  \A s \in erased :
    original[s].variant \in {"store", "reduce"} =>
      \A p \in At(s, IssueKinds) :
        body[p].idx = translateTMAIndices(original[s])

\* ------------------------------------------------------------------ C12
\* What the synchronous store s of the original loop writes in iteration
\* it: its source of that iteration, at its translated indices.
SynchronousStore(s, it) ==
  [from |-> s, iter |-> it, data |-> <<s, it>>,
   idx |-> translateTMAIndices(original[s])]

\* C12 as stated: every completed transfer has written what the store it
\* stands for writes in the original loop in the same iteration; while a
\* transfer is in flight its buffer holds the data staged for it, and a
\* transfer is issued only when the staged data is visible to the engine.
C12_Refinement ==
  /\ delivered.from # 0 =>
       delivered = SynchronousStore(delivered.from, delivered.iter)
  /\ \A t \in outstanding :
       /\ smem[t.buf] = <<t.from, t.iter>>
       /\ vis[t.buf] = <<t.from, t.iter>>

\* ------------------------------------------------------------------ C13
\* C13: every rewritten store has an issue operation in the body; it reads
\* the buffer the store-to-buffer map holds for the store and takes the
\* store's descriptor; the issue of a reduce carries the reduce's kind; the
\* issue of a scatter carries the scatter's offsets as they were, and no
\* index arithmetic is emitted for it.
C13_IssueOperands ==
  \A s \in erased :
    /\ At(s, IssueKinds) # {}
    /\ \A p \in At(s, IssueKinds) :
         /\ body[p].buf = storeToAlloc[s]
         /\ body[p].buf # 0
         /\ body[p].host = original[s].host
         /\ body[p].enc = original[s].enc
         /\ body[p].kind = "async_tma_reduce" =>
              body[p].rkind = original[s].rkind
         /\ body[p].kind = "async_tma_scatter" =>
              /\ body[p].idx = original[s].idx
              /\ At(s, {"arith.constant", "arith.muli"}) = {}

\* A rewritten loop of a plain store, a reduce and a scatter, the plain
\* store and the scatter through fp4-padded descriptors: index arithmetic
\* stands before the issue of the plain store and none before the scatter's.
C13_Witness ==
  /\ Finished
  /\ \E s, r, t \in erased :
       /\ original[s].variant = "store"
       /\ original[s].enc = "fp4padded"
       /\ At(s, {"arith.muli"}) # {}
       /\ original[r].variant = "reduce"
       /\ body[The(At(r, IssueKinds))].rkind = "add"
       /\ original[t].variant = "scatter"
       /\ original[t].enc = "fp4padded"
       /\ body[The(At(t, IssueKinds))].kind = "async_tma_scatter"

\* ------------------------------------------------------------------ C14
\* C14 as stated: no step of the transform reads or iterates an entry of
\* the store-to-buffer map whose key is an operation already erased.
C14_NoStaleRead == staleReads = {}

\* ------------------------------------------------------------------ C15
\* The first of the stores assigned so far that has the source type of
\* allocation a.
FirstRequest(a) ==
  CHOOSE s \in AssignedStores :
    /\ SrcType(original[s]) = <<a.shape, a.elt>>
    /\ \A t \in AssignedStores :
         SrcType(original[t]) = SrcType(original[s]) => s <= t

\* C15: what the transform places before the loop are the allocations and
\* nothing else, and no allocation stands in the loop body or after the
\* loop; each allocation was made for the first store, in pre-order, of its
\* source type, and the allocations stand in the order of those stores;
\* once a store has been rewritten the allocations of all source types of
\* the loop's stores are in place.
C15_AllocPlacement ==
  /\ \A p \in 1..Len(pre) : IsAlloc(pre[p])
  /\ Positions(body, IsAlloc) = {}
  /\ Positions(post, IsAlloc) = {}
  /\ \A p \in 1..Len(pre) : pre[p].loc = FirstRequest(pre[p])
  /\ \A p, q \in 1..Len(pre) : p < q => pre[p].loc < pre[q].loc
  /\ erased # {} =>
       {<<pre[p].shape, pre[p].elt>> : p \in 1..Len(pre)}
         = {SrcType(original[s]) : s \in Eligible}

\* The first store has just been rewritten; two allocations stand before
\* the loop, the second made for the third store, the second store sharing
\* the buffer of the first.
C15_Witness ==
  /\ pc = "rewrite"
  /\ Cardinality(erased) = 1
  /\ Len(pre) = 2
  /\ pre[1].loc = 1
  /\ pre[2].loc = 3
  /\ Cardinality(AssignedStores) = 3

\* ------------------------------------------------------------------ C16
Collected == {tmaStores[j].op : j \in 1..Len(tmaStores)}

\* How far store s has come: 1 collected, 2 buffer assigned, 3 rewritten,
\* 4 rewritten and deleted.
Stage(s, stores, map, ops) ==
  IF Positions(ops, LAMBDA o : o.id = s) = {} THEN 4
  ELSE IF Positions(ops, LAMBDA o : IsIssue(o) /\ o.from = s) # {} THEN 3
  ELSE IF s \in DOMAIN map THEN 2
  ELSE IF \E j \in 1..Len(stores) : stores[j].op = s THEN 1
  ELSE 0

\* C16: a collected store is collected once; its stage never decreases;
\* only an uncollected store becomes collected, only a collected one gets a
\* buffer, and the buffer stays; only a store with a buffer is rewritten,
\* it is deleted in the same step, and it never has more than one issue
\* operation; the transform comes to its end, and when it has rewritten a
\* loop every collected store is deleted with its one issue operation.
C16_Lifecycle ==
  /\ [](\A a, b \in 1..Len(tmaStores) :
          a # b => tmaStores[a].op # tmaStores[b].op)
  /\ [][\A s \in Collected' :
          LET old == Stage(s, tmaStores, storeToAlloc, body)
              new == Stage(s, tmaStores', storeToAlloc', body')
          IN /\ new >= old
             /\ new # old => new = IF old = 2 THEN 4 ELSE old + 1
             /\ s \in DOMAIN storeToAlloc =>
                  /\ s \in DOMAIN storeToAlloc'
                  /\ storeToAlloc'[s] = storeToAlloc[s]
             /\ Cardinality(At(s, IssueKinds)') <= 1
             /\ new = 4 => One(At(s, IssueKinds)')]_vars
  /\ [](Finished =>
         \A s \in Collected :
           Stage(s, tmaStores, storeToAlloc, body) = 4)
  /\ <>(pc = "done")

\* The transform has returned for a loop of three stores, each deleted.
C16_Witness ==
  /\ Finished
  /\ Cardinality(Collected) = 3
  /\ \A s \in Collected : Stage(s, tmaStores, storeToAlloc, body) = 4

\* ------------------------------------------------------------------ C17
IsUnknown(o) == IsEligible(o) /\ o.variant \notin Variants

\* C17 as stated: no issue operation is ever emitted for a collected store
\* that is no plain store, reduce or scatter; the transform does not get
\* past the rewrite of such a store, and does not return true for a loop
\* that holds one.
C17_AbortOnUnknownVariant ==
  /\ \A s \in Positions(original, IsUnknown) : At(s, IssueKinds) = {}
  /\ Positions(original, IsUnknown) # {} =>
       /\ pc \notin {"epilogue", "trigger", "return"}
       /\ result # "true"

\* ------------------------------------------------------------------ C18
\* The place of a step of pipelineTMAStores in the order of its phases.
PhaseRank(at) ==
  CASE at = "collect" -> 1
    [] at = "alloc" -> 2
    [] at = "anyof" -> 3
    [] at = "rewrite" -> 4
    [] at = "epilogue" -> 5
    [] at = "trigger" -> 6
    [] at = "return" -> 7
    [] at = "done" -> 8

\* C18: the transform never steps back to an earlier phase; for a loop
\* with a store outside nested loops, no store is erased while it is
\* collecting, allocating or deciding whether a descriptor is device-side;
\* once a store is erased every store has a buffer and the decision has
\* been taken and stays; nothing stands after the loop before every store
\* is erased; the descriptor lowering has run only with the epilogue in
\* place.
C18_PhaseOrder ==
  /\ [][PhaseRank(pc') >= PhaseRank(pc)]_vars
  /\ [](Eligible # {} =>
         /\ pc \in {"collect", "alloc", "anyof"} =>
              erased = {} /\ post = <<>> /\ lowered = <<>>
         /\ pc = "alloc" => tmaStores # <<>>
         /\ erased # {} =>
              /\ AssignedStores = Eligible
              /\ hasDeviceSideTMA = (\E s \in Eligible : ~original[s].host)
         /\ post # <<>> => erased = Eligible
         /\ pc = "rewrite" => post = <<>>
         /\ lowered # <<>> =>
              /\ Positions(post, IsWait) # {}
              /\ Positions(post, IsDealloc) # {})
  /\ [][erased # {} => hasDeviceSideTMA' = hasDeviceSideTMA]_vars

\* The descriptor lowering has just run for a loop of three stores, one of
\* them through a device-side descriptor.
C18_Witness ==
  /\ pc = "return"
  /\ lowered = <<NumStages>>
  /\ Cardinality(Eligible) = 3
  /\ erased = Eligible
  /\ Cardinality({s \in Eligible : ~original[s].host}) = 1
  /\ Positions(post, IsDealloc) # {}

\* ------------------------------------------------------------------ C19
\* The allocation before the loop that made buffer b.
AllocOf(b) == pre[The({p \in 1..Len(pre) : pre[p].buf = b})]

\* C19 as stated: the buffer of every store that has one is mutable, has
\* the shape and the element type of the store's source, and has the
\* encoding getEncodingFromDescriptor gives for that store's descriptor.
C19_BufferMatchesStore ==
  \A s \in AssignedStores :
    LET a == AllocOf(storeToAlloc[s])
    IN /\ a.mutableMemory
       /\ a.shape = original[s].shape
       /\ a.elt = original[s].elt
       /\ a.encoding = getEncodingFromDescriptor(TMAStore(original[s]))

====
